---- MODULE Spec2Model ----
(***************************************************************************)
(* Model of package gcra (src/gcra.go): the generic cell rate algorithm.   *)
(*                                                                         *)
(* The persisted state of one rate-limit key is a Bucket, the theoretical  *)
(* arrival time (TAT).  A caller owns the bucket, an Options value and a   *)
(* clock; it seeds the bucket with Generate and advances it with Compute.  *)
(* Time is an integer count of time units.  GenerateRaw and ComputeRaw are *)
(* homogeneous in the time unit (roundDiv(k*a, k*b) = roundDiv(a, b)), so  *)
(* the model counts milliseconds where the Go program counts nanoseconds:  *)
(* every instant and period used here is a whole number of milliseconds.   *)
(***************************************************************************)
EXTENDS Integers, FiniteSets, Sequences, TLC

\* ------------------------------------------------------------------------
\* Bounds of the model
\* ------------------------------------------------------------------------

\* The clock runs from 0 to MaxNow steps of the options' time step.
MaxNow == 4

\* The clock moves by at most MaxTick steps at once.
MaxTick == 2

\* Costs and counts -1 .. MaxCost are tried against every bucket.
MaxCost == 2

\* ------------------------------------------------------------------------
\* Constants of the program
\* ------------------------------------------------------------------------

\* time.Second, in the model's time unit (milliseconds).
Second == 1000

\* The TAT of the zero Bucket (Bucket{}, time.Time{}): an instant centuries
\* before every clock reading; the clock of the model starts at 0.
ZeroTAT == -1

\* Stand-ins for the least and the greatest int64: the values a conversion
\* of an infinite or NaN float64 to int64 produces.  Only their sign and
\* their lying outside every computed quantity matter here.
MinInt64 == -1000000000
MaxInt64 == 1000000000

\* Result{}: the zero Result returned with an error.
ZeroResult == [Limited |-> FALSE, Remaining |-> 0, RetryIn |-> 0, ResetIn |-> 0]

\* The Options values the callers of the model use.  Burst, Rate, Period.
\* (50, 10, 1s) is the Example's and (4, 10, 10s) is TestCompute's; in the
\* others Period/Rate is a tie (1/2, 3/2 and 5/2, rounded up to 1, 2 and 3),
\* rounds down (7/3, to 2) and rounds to zero (1/3).  The last six fail the
\* check of the arguments: a zero Burst, Rate or Period as in
\* TestGenerateErrors and TestComputeErrors, and a negative one.
Opt(b, r, p) == [Burst |-> b, Rate |-> r, Period |-> p]

OptionSet ==
    { Opt(50, 10, Second), Opt(4, 10, 10 * Second),
      Opt(2, 2, 1), Opt(3, 2, 3), Opt(2, 2, 5), Opt(2, 3, 7), Opt(1, 3, 1),
      Opt(0, 1, 1), Opt(1, 0, 1), Opt(1, 1, 0),
      Opt(-1, 1, 1), Opt(1, -2, 1), Opt(1, 1, -1) }

\* No Options: what stands for the Options of the call that returned a
\* bucket when the bucket is the zero Bucket, which no call returned.
NoOptions == Opt(0, 0, 0)

\* The Options of a caller that changes them once between two calls: the
\* Options it starts with, and those it changes to: the burst lowered, the
\* rate lowered (the emission interval raised from 2 to 3), and both.  All
\* have an emission interval of at least 1.
ReconfBase == Opt(3, 2, 3)

ReconfSet == { Opt(2, 2, 3), Opt(3, 1, 3), Opt(2, 1, 3) }

\* The two callers that share one key without serializing their access.
Callers == {1, 2}

\* The builds of the program: the conversion of a float64 that int64 cannot
\* represent is implementation-dependent in Go.  On amd64 it yields MinInt64
\* for NaN, +Inf and -Inf; on arm64 it yields 0 for NaN and saturates.
Archs == {"amd64", "arm64"}

VARIABLES
    arch,       \* the build the program runs as
    opts,       \* the caller's Options, the same for every call
    now,        \* the caller's clock
    monotone,   \* history: the clock has never been set back
    bucket,     \* the persisted Bucket: its TAT
    result,     \* the Result of the last call
    err,        \* the error of the last call: "nil" or the error's name
    lastOp,     \* the last call: "none", "generate" or "compute"
    lastCost,   \* the count or cost passed to the last call
    lastNow,    \* the now passed to the last call
    prevBucket, \* the bucket passed to the last call
    afterGen,   \* history: the last call is a Compute that directly follows
                \* a successful Generate made at the same now
    genCount,   \* history: the count passed to that Generate
    scenario,   \* history: how many calls of the Example the calls so far are
    runOK,      \* history: the calls since the bucket was last full were all
                \* made at one instant, with costs >= 1 and without error
    admitted,   \* history: the total cost allowed in that run
    repeated,   \* history: the last call is a Compute that repeats the
                \* Compute before it (same now, same cost), which had cost 0
                \* or was limited
    rawCalled,  \* history: the last call reached GenerateRaw or ComputeRaw
    total,      \* history: the total cost allowed since the clock read 0,
                \* kept for the metered caller
    madeUnder,  \* history: the Options of the call that returned the
                \* persisted bucket, NoOptions for the zero Bucket
    changed,    \* history: the last call is a Compute that was passed a
                \* bucket returned by a call under other Options
    pc,         \* of each of two unserialized callers of one key: "idle",
                \* "read", "computed" or "done"
    held,       \* the bucket each of them read
    rcost,      \* the cost each of them passed to Compute
    rout,       \* what Compute returned to each of them
    lastWriter  \* history: the caller that wrote the bucket back last, or 0

vars == << arch, opts, now, monotone, bucket, result, err, lastOp, lastCost,
           lastNow, prevBucket, afterGen, genCount, scenario, runOK, admitted,
           repeated, rawCalled, total, madeUnder, changed,
           pc, held, rcost, rout, lastWriter >>

\* The variables of the two unserialized callers.
raceVars == << pc, held, rcost, rout, lastWriter >>

\* The variables of the serialized caller, but for the bucket.
serialVars == << arch, opts, now, monotone, result, err, lastOp, lastCost,
                 lastNow, prevBucket, afterGen, genCount, scenario, runOK,
                 admitted, repeated, rawCalled, total, madeUnder, changed >>

\* ------------------------------------------------------------------------
\* The raw numeric engine
\* ------------------------------------------------------------------------

Abs(x) == IF x < 0 THEN -x ELSE x

Sign(x) == IF x < 0 THEN -1 ELSE IF x > 0 THEN 1 ELSE 0

\* int64(f) for a float64 f that is NaN (s = 0), +Inf (s = 1) or -Inf (s = -1).
ConvertNonFinite(s) ==
    IF arch = "amd64" THEN MinInt64
    ELSE IF s = 0 THEN 0 ELSE IF s > 0 THEN MaxInt64 ELSE MinInt64

\* roundDiv: int64(math.Round(float64(a) / float64(b))).  math.Round rounds
\* to the nearest integer, halves away from zero.  For |a|, |b| < 2^52 the
\* float64 quotient rounds as the exact quotient does.  float64(a) / 0 is
\* NaN for a = 0 and an infinity of a's sign otherwise.
roundDiv(a, b) ==
    IF b = 0 THEN ConvertNonFinite(Sign(a))
    ELSE Sign(a) * Sign(b) * ((2 * Abs(a) + Abs(b)) \div (2 * Abs(b)))

\* GenerateRaw that takes count as the tokens already consumed.
GenerateRaw_Consumed(n, count, burst, rate, period) ==
    LET emissionInterval == roundDiv(period, rate)
    IN  n + emissionInterval * count

GenerateRaw(n, count, burst, rate, period) ==
    LET emissionInterval == roundDiv(period, rate)
    IN  n + emissionInterval * (burst - count)

\* ComputeRaw with the comparison of the reset flipped (now < tat): a bucket
\* ahead of now is pulled back to now, a stale one is left stale.
ComputeRaw_FlippedReset(tat0, n, burst, rate, period, cost) ==
    LET emissionInterval == roundDiv(period, rate)
        increment        == emissionInterval * cost
        burstOffset      == emissionInterval * burst
        tat              == IF n < tat0 THEN n ELSE tat0
        newTAT           == tat + increment
        allowAt          == newTAT - burstOffset
        diff             == n - allowAt
        remaining        == roundDiv(diff, emissionInterval)
    IN  IF remaining < 0
        THEN [tat |-> tat, limited |-> TRUE,
              remaining |-> roundDiv(n - (tat - burstOffset), emissionInterval),
              retryIn |-> diff * (-1), resetIn |-> tat - n]
        ELSE IF remaining = 0 /\ increment <= 0
        THEN [tat |-> tat, limited |-> TRUE, remaining |-> 0,
              retryIn |-> 0, resetIn |-> tat - n]
        ELSE [tat |-> newTAT, limited |-> FALSE, remaining |-> remaining,
              retryIn |-> 0, resetIn |-> newTAT - n]

\* ComputeRaw without the reset of a stale TAT.
ComputeRaw_NoReset(tat0, n, burst, rate, period, cost) ==
    LET emissionInterval == roundDiv(period, rate)
        increment        == emissionInterval * cost
        burstOffset      == emissionInterval * burst
        tat              == tat0
        newTAT           == tat + increment
        allowAt          == newTAT - burstOffset
        diff             == n - allowAt
        remaining        == roundDiv(diff, emissionInterval)
    IN  IF remaining < 0
        THEN [tat |-> tat, limited |-> TRUE,
              remaining |-> roundDiv(n - (tat - burstOffset), emissionInterval),
              retryIn |-> diff * (-1), resetIn |-> tat - n]
        ELSE IF remaining = 0 /\ increment <= 0
        THEN [tat |-> tat, limited |-> TRUE, remaining |-> 0,
              retryIn |-> 0, resetIn |-> tat - n]
        ELSE [tat |-> newTAT, limited |-> FALSE, remaining |-> remaining,
              retryIn |-> 0, resetIn |-> newTAT - n]

\* ComputeRaw with the denial at remaining <= 0 instead of remaining < 0.
ComputeRaw_DenyAtZero(tat0, n, burst, rate, period, cost) ==
    LET emissionInterval == roundDiv(period, rate)
        increment        == emissionInterval * cost
        burstOffset      == emissionInterval * burst
        tat              == IF n > tat0 THEN n ELSE tat0
        newTAT           == tat + increment
        allowAt          == newTAT - burstOffset
        diff             == n - allowAt
        remaining        == roundDiv(diff, emissionInterval)
    IN  IF remaining <= 0
        THEN [tat |-> tat, limited |-> TRUE,
              remaining |-> roundDiv(n - (tat - burstOffset), emissionInterval),
              retryIn |-> diff * (-1), resetIn |-> tat - n]
        ELSE IF remaining = 0 /\ increment <= 0
        THEN [tat |-> tat, limited |-> TRUE, remaining |-> 0,
              retryIn |-> 0, resetIn |-> tat - n]
        ELSE [tat |-> newTAT, limited |-> FALSE, remaining |-> remaining,
              retryIn |-> 0, resetIn |-> newTAT - n]

\* ComputeRaw with the rejected cost applied: the denial returns newTAT.
ComputeRaw_DenyApplies(tat0, n, burst, rate, period, cost) ==
    LET emissionInterval == roundDiv(period, rate)
        increment        == emissionInterval * cost
        burstOffset      == emissionInterval * burst
        tat              == IF n > tat0 THEN n ELSE tat0
        newTAT           == tat + increment
        allowAt          == newTAT - burstOffset
        diff             == n - allowAt
        remaining        == roundDiv(diff, emissionInterval)
    IN  IF remaining < 0
        THEN [tat |-> newTAT, limited |-> TRUE,
              remaining |-> roundDiv(n - (tat - burstOffset), emissionInterval),
              retryIn |-> diff * (-1), resetIn |-> tat - n]
        ELSE IF remaining = 0 /\ increment <= 0
        THEN [tat |-> tat, limited |-> TRUE, remaining |-> 0,
              retryIn |-> 0, resetIn |-> tat - n]
        ELSE [tat |-> newTAT, limited |-> FALSE, remaining |-> remaining,
              retryIn |-> 0, resetIn |-> newTAT - n]

ComputeRaw(tat0, n, burst, rate, period, cost) ==
    LET emissionInterval == roundDiv(period, rate)
        increment        == emissionInterval * cost
        burstOffset      == emissionInterval * burst
        tat              == IF n > tat0 THEN n ELSE tat0
        newTAT           == tat + increment
        allowAt          == newTAT - burstOffset
        diff             == n - allowAt
        remaining        == roundDiv(diff, emissionInterval)
    IN  IF remaining < 0
        THEN [tat |-> tat, limited |-> TRUE,
              remaining |-> roundDiv(n - (tat - burstOffset), emissionInterval),
              retryIn |-> diff * (-1), resetIn |-> tat - n]
        ELSE IF remaining = 0 /\ increment <= 0
        THEN [tat |-> tat, limited |-> TRUE, remaining |-> 0,
              retryIn |-> 0, resetIn |-> tat - n]
        ELSE [tat |-> newTAT, limited |-> FALSE, remaining |-> remaining,
              retryIn |-> 0, resetIn |-> newTAT - n]

\* ------------------------------------------------------------------------
\* The typed facade
\* ------------------------------------------------------------------------

\* The check of the arguments without the check of the period.
CheckArguments_NoPeriod(count, o) ==
    IF count < 0 \/ o.Burst <= 0 \/ o.Rate <= 0
    THEN "ErrInvalidParameter"
    ELSE IF count > o.Burst THEN "ErrCostHigherThanBurst" ELSE "nil"

\* The check of the arguments with the cost compared to the rate.
CheckArguments_CostAgainstRate(count, o) ==
    IF count < 0 \/ o.Burst <= 0 \/ o.Rate <= 0 \/ o.Period <= 0
    THEN "ErrInvalidParameter"
    ELSE IF count > o.Rate THEN "ErrCostHigherThanBurst" ELSE "nil"

\* The check of the arguments, shared by Generate and Compute.
CheckArguments(count, o) ==
    IF count < 0 \/ o.Burst <= 0 \/ o.Rate <= 0 \/ o.Period <= 0
    THEN "ErrInvalidParameter"
    ELSE IF count > o.Burst THEN "ErrCostHigherThanBurst" ELSE "nil"

\* Generate(now, count, opts): the bucket and the error it returns.
GenerateOut(n, count, o) ==
    LET e == CheckArguments(count, o)
    IN  IF e # "nil" THEN [bucket |-> ZeroTAT, err |-> e, raw |-> FALSE]
        ELSE [bucket |-> GenerateRaw(n, count, o.Burst, o.Rate, o.Period),
              err |-> "nil", raw |-> TRUE]

\* Compute that computes before it checks: an error comes with the bucket
\* ComputeRaw returned.
ComputeOut_ErrorAdvances(n, b, cost, o) ==
    LET e == CheckArguments(cost, o)
        r == ComputeRaw(b, n, o.Burst, o.Rate, o.Period, cost)
    IN  IF e # "nil"
        THEN [bucket |-> r.tat, result |-> ZeroResult, err |-> e, raw |-> TRUE]
        ELSE [bucket |-> r.tat,
              result |-> [Limited |-> r.limited, Remaining |-> r.remaining,
                          RetryIn |-> r.retryIn, ResetIn |-> r.resetIn],
              err |-> "nil", raw |-> TRUE]

\* Compute(now, bucket, cost, opts): the bucket, Result and error it returns.
ComputeOut(n, b, cost, o) ==
    LET e == CheckArguments(cost, o)
        r == ComputeRaw(b, n, o.Burst, o.Rate, o.Period, cost)
    IN  IF e # "nil"
        THEN [bucket |-> b, result |-> ZeroResult, err |-> e, raw |-> FALSE]
        ELSE [bucket |-> r.tat,
              result |-> [Limited |-> r.limited, Remaining |-> r.remaining,
                          RetryIn |-> r.retryIn, ResetIn |-> r.resetIn],
              err |-> "nil", raw |-> TRUE]

\* ------------------------------------------------------------------------
\* The callers
\* ------------------------------------------------------------------------

\* The step of the caller's clock: a second for options whose period is a
\* second or more, one time unit otherwise.
Step(o) == IF o.Period >= Second THEN Second ELSE 1

\* The costs and counts a caller passes.  Against a burst of at most
\* MaxCost + 2: all of -1 .. MaxCost up to the burst, the burst and one more
\* than the burst.  Against a larger burst: -1, 0, the Example's costs and
\* one more than the burst.
Costs(o) ==
    IF o.Burst <= MaxCost + 2
    THEN { c \in -1 .. MaxCost : c <= o.Burst } \cup { o.Burst, o.Burst + 1 }
    ELSE { -1, 0, 10, 15, 25, 30, o.Burst + 1 }

\* The Example's calls: Generate(t0, 25), then Compute with costs 10, 30, 15
\* at t0 and with cost 0 at t0 + 2s, under Burst 50, Rate 10, Period 1s.
ExampleOpts == Opt(50, 10, Second)

ExampleCost(i) == IF i = 1 THEN 10 ELSE IF i = 2 THEN 30 ELSE IF i = 3 THEN 15 ELSE 0

\* The builds told apart under options o: the builds differ only in the
\* conversion of a quotient by zero, which takes an emission interval of
\* zero (2 * Period < Rate) or a rate of zero; under other options one
\* build stands for both.
Builds(o) == IF o.Rate = 0 \/ 2 * o.Period < o.Rate THEN Archs ELSE {"amd64"}

Init ==
    /\ opts \in OptionSet
    /\ arch \in Builds(opts)
    /\ now = 0
    /\ monotone = TRUE
    /\ bucket = ZeroTAT
    /\ result = ZeroResult
    /\ err = "nil"
    /\ lastOp = "none"
    /\ lastCost = 0
    /\ lastNow = 0
    /\ prevBucket = ZeroTAT
    /\ afterGen = FALSE
    /\ genCount = 0
    /\ scenario = 0
    /\ runOK = FALSE
    /\ admitted = 0
    /\ repeated = FALSE
    /\ rawCalled = FALSE
    /\ total = 0
    /\ madeUnder = NoOptions
    /\ changed = FALSE
    /\ pc = [i \in Callers |-> "idle"]
    /\ held = [i \in Callers |-> ZeroTAT]
    /\ rcost = [i \in Callers |-> 0]
    /\ rout = [i \in Callers |->
                [bucket |-> ZeroTAT, result |-> ZeroResult, err |-> "nil",
                 raw |-> FALSE]]
    /\ lastWriter = 0

\* now = now.Add(d): time passes between two calls.
Tick ==
    \E k \in 1 .. MaxTick :
        /\ now + k * Step(opts) <= MaxNow * Step(opts)
        /\ now' = now + k * Step(opts)
        /\ UNCHANGED << arch, opts, monotone, bucket, result, err, lastOp,
                        lastCost, lastNow, prevBucket, afterGen, genCount,
                        scenario, runOK, admitted, repeated, rawCalled,
                        total, madeUnder, changed >>
        /\ UNCHANGED raceVars

\* now is an argument of every call: nothing keeps a caller from passing an
\* earlier instant than in the call before.
Rewind ==
    \E k \in 1 .. MaxTick :
        /\ now - k * Step(opts) >= 0
        /\ now' = now - k * Step(opts)
        /\ monotone' = FALSE
        /\ UNCHANGED << arch, opts, bucket, result, err, lastOp, lastCost,
                        lastNow, prevBucket, afterGen, genCount, scenario,
                        runOK, admitted, repeated, rawCalled, total,
                        madeUnder, changed >>
        /\ UNCHANGED raceVars

\* bucket, err := Generate(now, count, opts), as the first call on the key.
Generate ==
    \E count \in Costs(opts) :
        LET out == GenerateOut(now, count, opts)
        IN  /\ lastOp = "none"
            /\ bucket' = out.bucket
            /\ err' = out.err
            /\ result' = ZeroResult
            /\ lastOp' = "generate"
            /\ lastCost' = count
            /\ lastNow' = now
            /\ prevBucket' = bucket
            /\ afterGen' = FALSE
            /\ genCount' = count
            /\ scenario' = IF out.err = "nil" /\ opts = ExampleOpts /\ count = 25
                           THEN 1 ELSE 0
            /\ runOK' = FALSE
            /\ admitted' = 0
            /\ repeated' = FALSE
            /\ rawCalled' = out.raw
            /\ madeUnder' = IF out.err = "nil" THEN opts ELSE madeUnder
            /\ changed' = FALSE
            /\ UNCHANGED << arch, opts, now, monotone, total >>
            /\ UNCHANGED raceVars

\* bucket, result, err := Compute(now, bucket, cost, opts).
Compute ==
    \E cost \in Costs(opts) :
        LET out   == ComputeOut(now, bucket, cost, opts)
            ok    == out.err = "nil"
            full  == bucket <= now
            inRun == ok /\ cost >= 1 /\ (full \/ (runOK /\ lastNow = now))
            base  == IF full THEN 0 ELSE admitted
            next  == scenario + 1
        IN  /\ bucket' = out.bucket
            /\ result' = out.result
            /\ err' = out.err
            /\ lastOp' = "compute"
            /\ lastCost' = cost
            /\ lastNow' = now
            /\ prevBucket' = bucket
            /\ afterGen' = (lastOp = "generate" /\ err = "nil" /\ lastNow = now)
            /\ genCount' = genCount
            /\ scenario' = IF /\ ok
                              /\ scenario \in 1 .. 4
                              /\ cost = ExampleCost(scenario)
                              /\ now = IF scenario = 4 THEN lastNow + 2 * Second
                                                       ELSE lastNow
                           THEN next ELSE 0
            /\ runOK' = inRun
            /\ admitted' = IF inRun
                           THEN base + (IF out.result.Limited THEN 0 ELSE cost)
                           ELSE 0
            /\ repeated' = /\ ok
                           /\ lastOp = "compute" /\ err = "nil"
                           /\ lastNow = now /\ lastCost = cost
                           /\ (cost = 0 \/ result.Limited)
            /\ rawCalled' = out.raw
            /\ madeUnder' = IF ok THEN opts ELSE madeUnder
            /\ changed' = (ok /\ madeUnder # NoOptions /\ madeUnder # opts)
            /\ UNCHANGED << arch, opts, now, monotone, total >>
            /\ UNCHANGED raceVars

Next == Tick \/ Rewind \/ Generate \/ Compute

Spec == Init /\ [][Next]_vars

\* ------------------------------------------------------------------------
\* Two callers of one key that do not serialize their access
\* ------------------------------------------------------------------------

\* The key is seeded before either caller starts.
RaceSeed ==
    /\ \A i \in Callers : pc[i] = "idle"
    /\ Generate

\* Caller i reads the persisted bucket.
RaceRead(i) ==
    /\ pc[i] = "idle"
    /\ held' = [held EXCEPT ![i] = bucket]
    /\ pc' = [pc EXCEPT ![i] = "read"]
    /\ UNCHANGED << bucket, rcost, rout, lastWriter >>
    /\ UNCHANGED serialVars

\* Caller i calls Compute(now, held, cost, opts) on the bucket it read.
RaceCompute(i) ==
    \E cost \in Costs(opts) :
        /\ pc[i] = "read"
        /\ rout' = [rout EXCEPT ![i] = ComputeOut(now, held[i], cost, opts)]
        /\ rcost' = [rcost EXCEPT ![i] = cost]
        /\ pc' = [pc EXCEPT ![i] = "computed"]
        /\ UNCHANGED << bucket, held, lastWriter >>
        /\ UNCHANGED serialVars

\* Caller i writes the bucket Compute returned back.
RaceWrite(i) ==
    /\ pc[i] = "computed"
    /\ bucket' = rout[i].bucket
    /\ lastWriter' = i
    /\ pc' = [pc EXCEPT ![i] = "done"]
    /\ UNCHANGED << held, rcost, rout >>
    /\ UNCHANGED serialVars

NextRace ==
    \/ RaceSeed
    \/ \E i \in Callers : RaceRead(i) \/ RaceCompute(i) \/ RaceWrite(i)

SpecRace == Init /\ [][NextRace]_vars

\* ------------------------------------------------------------------------
\* A serialized caller whose allowed cost is metered
\* ------------------------------------------------------------------------

\* bucket, result, err := Compute(now, bucket, cost, opts), with the cost
\* added to the total when the call is allowed.
MeteredCompute ==
    \E cost \in Costs(opts) :
        LET out == ComputeOut(now, bucket, cost, opts)
        IN  /\ bucket' = out.bucket
            /\ result' = out.result
            /\ err' = out.err
            /\ lastOp' = "compute"
            /\ lastCost' = cost
            /\ lastNow' = now
            /\ prevBucket' = bucket
            /\ rawCalled' = out.raw
            /\ total' = IF out.err = "nil" /\ ~out.result.Limited
                        THEN total + cost ELSE total
            /\ UNCHANGED << arch, opts, now, monotone, afterGen, genCount,
                            scenario, runOK, admitted, repeated, madeUnder,
                            changed >>
            /\ UNCHANGED raceVars

NextMetered == Tick \/ Generate \/ MeteredCompute

SpecMetered == Init /\ [][NextMetered]_vars

\* ------------------------------------------------------------------------
\* A caller that changes its Options between calls
\* ------------------------------------------------------------------------

\* opts is an argument of every call: the caller passes other Options from
\* the next call on.
Reconfigure ==
    \E o \in ReconfSet :
        /\ opts = ReconfBase
        /\ opts' = o
        /\ UNCHANGED << arch, now, monotone, bucket, result, err, lastOp,
                        lastCost, lastNow, prevBucket, afterGen, genCount,
                        scenario, runOK, admitted, repeated, rawCalled,
                        total, madeUnder, changed >>
        /\ UNCHANGED raceVars

InitReconfigure == Init /\ opts = ReconfBase

NextReconfigure == Tick \/ Generate \/ Compute \/ Reconfigure

SpecReconfigure == InitReconfigure /\ [][NextReconfigure]_vars

\* ------------------------------------------------------------------------
\* The claims
\* ------------------------------------------------------------------------

\* The last call is a Compute that passed the check of its arguments.
Computed == lastOp = "compute" /\ err = "nil"

\* The emission interval of the caller's options.
EmissionInterval == roundDiv(opts.Period, opts.Rate)

Max(a, b) == IF a >= b THEN a ELSE b

\* C1: a Compute that passes validation and returns Limited = true returns
\* the bucket it was passed, whatever the bucket and whatever now.
\* (Fails where the emission interval rounds to zero, Period/Rate < 1/2:
\* every Compute is then limited, and a stale bucket comes back as now.)
C1_DeniedKeepsBucket ==
    (Computed /\ result.Limited) => bucket = prevBucket

\* C1, where the emission interval is at least 1: the denied Compute
\* returns the bucket it was passed.
C1_DeniedKeepsBucketPositiveInterval ==
    (Computed /\ result.Limited /\ EmissionInterval >= 1) => bucket = prevBucket

\* C2: a Compute with cost 0 returns the bucket it was passed, whatever the
\* bucket and whatever now, a stale bucket included.
C2_ZeroCostKeepsBucket ==
    (Computed /\ lastCost = 0) => bucket = prevBucket

\* C2, amended: a Compute with cost 0 returns the bucket it was passed when
\* its TAT is at or after now, and a bucket whose TAT is now when the TAT it
\* was passed is earlier than now.
C2_ZeroCostResetsStaleBucket ==
    (Computed /\ lastCost = 0) => bucket = Max(prevBucket, lastNow)

\* A Compute with cost 0 was passed a stale bucket and returned another.
C2_Witness ==
    Computed /\ lastCost = 0 /\ prevBucket < lastNow /\ bucket # prevBucket

\* C3: with the stored TAT <= now, a Compute with a cost in 1 .. Burst is
\* allowed with Remaining = Burst - cost, RetryIn = 0 and
\* ResetIn = emissionInterval * cost, and a Compute with cost 0 reports
\* Remaining = Burst, for all Burst, Rate, Period > 0.
C3_FullBucketAdmits ==
    (Computed /\ prevBucket <= lastNow) =>
        IF lastCost >= 1
        THEN /\ ~result.Limited
             /\ result.Remaining = opts.Burst - lastCost
             /\ result.RetryIn = 0
             /\ result.ResetIn = EmissionInterval * lastCost
        ELSE result.Remaining = opts.Burst

\* C3, where the emission interval is at least 1.
C3_FullBucketAdmitsPositiveInterval ==
    EmissionInterval >= 1 => C3_FullBucketAdmits

\* C4: under a clock that never goes back, every Result has
\* 0 <= Remaining <= Burst, RetryIn >= 0, ResetIn >= 0, RetryIn = 0 when not
\* limited, and ResetIn = returned TAT - now.
C4_ResultRanges ==
    (Computed /\ monotone) =>
        /\ 0 <= result.Remaining
        /\ result.Remaining <= opts.Burst
        /\ result.RetryIn >= 0
        /\ result.ResetIn >= 0
        /\ (~result.Limited => result.RetryIn = 0)
        /\ result.ResetIn = bucket - lastNow

\* C4, where the emission interval is at least 1.
C4_ResultRangesPositiveInterval ==
    EmissionInterval >= 1 => C4_ResultRanges

\* C5: the TAT an allowed Compute returns is at or after the TAT it was
\* passed, whatever now; and as no Compute moves the stored TAT back, the
\* TATs stored by successive allowed Computes never decrease.
C5_AllowedTATNeverDecreases ==
    /\ []((Computed /\ ~result.Limited) => bucket >= prevBucket)
    /\ [][lastOp' = "compute" => bucket' >= bucket]_vars

\* An allowed Compute with a positive cost, made after the clock was set
\* back, moved the TAT forward.
C5_Witness ==
    /\ Computed /\ ~result.Limited /\ lastCost >= 1
    /\ ~monotone /\ bucket > prevBucket /\ prevBucket > lastNow
\* The Result of the last Compute's call made again at time t: same bucket
\* passed, same cost, same options.
Again(t) == ComputeOut(t, prevBucket, lastCost, opts).result

\* C6: when a Compute in a state reached under a clock that never goes back
\* is limited with RetryIn = r, the same Compute at now + r on the same
\* bucket is allowed.
C6_RetryInAdmits ==
    (Computed /\ monotone /\ result.Limited) =>
        ~Again(lastNow + result.RetryIn).Limited

\* C6, amended: when such a Compute is limited with RetryIn = r > 0, the
\* same Compute at now + r on the same bucket is allowed.  (A limited
\* Compute with RetryIn = 0, the zero-cost query of an empty bucket, is
\* limited again at now + 0.)
C6_PositiveRetryInAdmits ==
    (Computed /\ monotone /\ result.Limited /\ result.RetryIn > 0) =>
        ~Again(lastNow + result.RetryIn).Limited

\* A Compute with a positive cost was limited with a positive RetryIn on a
\* bucket that is neither full nor empty.
C6_Witness ==
    /\ Computed /\ monotone /\ result.Limited /\ result.RetryIn > 0
    /\ lastCost >= 1 /\ result.Remaining >= 1 /\ prevBucket > lastNow
    /\ ~Again(lastNow + result.RetryIn).Limited

\* C7: Generate(now, count, opts) followed by Compute(now, bucket, 0, opts)
\* yields Remaining = count, RetryIn = 0 and
\* ResetIn = emissionInterval * (Burst - count), and Limited = false
\* whenever count >= 1, for all valid options and every count in 0 .. Burst.
C7_GenerateThenQuery ==
    (afterGen /\ Computed /\ lastCost = 0) =>
        /\ result.Remaining = genCount
        /\ result.RetryIn = 0
        /\ result.ResetIn = EmissionInterval * (opts.Burst - genCount)
        /\ (genCount >= 1 => ~result.Limited)

\* C7, where the emission interval is at least 1.
C7_GenerateThenQueryPositiveInterval ==
    EmissionInterval >= 1 => C7_GenerateThenQuery

Res(l, rem, retry, reset) ==
    [Limited |-> l, Remaining |-> rem, RetryIn |-> retry, ResetIn |-> reset]

\* C8: the Example.  Under Burst 50, Rate 10, Period 1s, after
\* Generate(t0, 25): Compute(t0, 10) gives {false, 15, 0, 3.5s}, then
\* Compute(t0, 30) gives {true, 15, 1.5s, 3.5s}, then Compute(t0, 15) gives
\* {false, 0, 0, 5s}, then Compute(t0 + 2s, 0) gives {false, 20, 0, 3s}.
C8_Example ==
    /\ scenario = 2 => result = Res(FALSE, 15, 0, (7 * Second) \div 2)
    /\ scenario = 3 => result = Res(TRUE, 15, (3 * Second) \div 2, (7 * Second) \div 2)
    /\ scenario = 4 => result = Res(FALSE, 0, 0, 5 * Second)
    /\ scenario = 5 => result = Res(FALSE, 20, 0, 3 * Second)

\* All five calls of the Example were made.
C8_Witness == scenario = 5 /\ opts = ExampleOpts /\ lastCost = 0

\* C9: from a full bucket, with Computes of cost >= 1 all at one instant: a
\* request is allowed exactly when the total allowed so far plus its cost is
\* at most Burst; an allowed one reports Remaining = Burst - total allowed
\* and ResetIn = emissionInterval * total allowed; a limited one reports
\* Remaining = Burst - total allowed, RetryIn = emissionInterval * (total
\* allowed + cost - Burst) and ResetIn = emissionInterval * total allowed.
\* (admitted counts the last request too when it was allowed.)
C9_SameInstantRun ==
    (runOK /\ Computed) =>
        IF ~result.Limited
        THEN /\ admitted <= opts.Burst
             /\ result.Remaining = opts.Burst - admitted
             /\ result.ResetIn = EmissionInterval * admitted
        ELSE /\ admitted + lastCost > opts.Burst
             /\ result.Remaining = opts.Burst - admitted
             /\ result.RetryIn =
                    EmissionInterval * (admitted + lastCost - opts.Burst)
             /\ result.ResetIn = EmissionInterval * admitted

\* C9, where the emission interval is at least 1.
C9_SameInstantRunPositiveInterval ==
    EmissionInterval >= 1 => C9_SameInstantRun

\* C10: a Compute with cost 0, or a limited Compute, made again at the same
\* now with the same cost on the bucket the first returned, yields the same
\* Result.
C10_RepeatedResultIdentical ==
    [][repeated' => result' = result]_vars

\* A limited Compute with a positive cost was repeated and limited again.
C10_WitnessLimited ==
    repeated /\ lastCost >= 1 /\ result.Limited /\ result.RetryIn > 0

\* A call was made: Generate or Compute.
Called == lastOp \in {"generate", "compute"}

\* The options pass the check of the arguments.
ValidOptions == opts.Burst > 0 /\ opts.Rate > 0 /\ opts.Period > 0

C12_CostHigherThanBurst ==
    (Called /\ lastCost > opts.Burst) => err = "ErrCostHigherThanBurst"

\* C12, amended: every Generate or Compute whose count or cost is greater
\* than Burst fails: with ErrCostHigherThanBurst when Burst, Rate and Period
\* are all positive, with ErrInvalidParameter otherwise.
C12_CostHigherThanBurstValidOptions ==
    (Called /\ lastCost > opts.Burst) =>
        err = IF ValidOptions THEN "ErrCostHigherThanBurst"
                              ELSE "ErrInvalidParameter"

\* A Compute with a cost above the burst failed with ErrCostHigherThanBurst
\* on a bucket ahead of now.
C12_Witness ==
    /\ lastOp = "compute" /\ lastCost > opts.Burst /\ ValidOptions
    /\ err = "ErrCostHigherThanBurst" /\ prevBucket > lastNow

\* C13: a Compute that fails returns the bucket it was passed and the zero
\* Result; a Generate that fails returns the zero Bucket.
C13_ErrorLeavesBucket ==
    /\ (lastOp = "compute" /\ err # "nil") =>
            bucket = prevBucket /\ result = ZeroResult
    /\ (lastOp = "generate" /\ err # "nil") =>
            bucket = ZeroTAT /\ result = ZeroResult

\* A Compute failed on a stale bucket, which ComputeRaw would have reset to
\* now, and returned it as it was.
C13_Witness ==
    /\ lastOp = "compute" /\ err = "ErrCostHigherThanBurst"
    /\ prevBucket < lastNow /\ bucket = prevBucket

\* Caller i's Compute passed the check of its arguments and was allowed.
RaceAllowed(i) == rout[i].err = "nil" /\ ~rout[i].result.Limited

\* Both callers read the same persisted bucket and both have written back.
RaceDone ==
    /\ \A i \in Callers : pc[i] = "done"
    /\ held[1] = held[2]

\* C14: when two callers read the same bucket, both are allowed at the same
\* instant and both write back, the persisted TAT carries the cost of the
\* last writer alone: the cost of the other is lost.  (C14_Witness is the
\* state the claim says is reachable.)
C14_LostUpdate ==
    (RaceDone /\ RaceAllowed(1) /\ RaceAllowed(2)) =>
        bucket = Max(held[1], now) + EmissionInterval * rcost[lastWriter]

\* Two callers read the same full bucket and were both allowed positive
\* costs at one instant, more than Burst in total.
C14_Witness ==
    /\ RaceDone /\ RaceAllowed(1) /\ RaceAllowed(2)
    /\ held[1] <= now
    /\ rcost[1] >= 1 /\ rcost[2] >= 1
    /\ rcost[1] + rcost[2] > opts.Burst

\* The Result of a Compute with cost c made in the current state: at the
\* caller's now, on the persisted bucket, under the caller's options.
Probe(c) == ComputeOut(now, bucket, c, opts).result

\* C15: in every state reached under valid options and a clock that never
\* goes back, where a Compute with cost 0 at now reports Remaining = r, a
\* Compute at the same now on the same bucket with a cost c in 1 .. Burst is
\* allowed exactly when c <= r, and the Compute with cost 0 is limited
\* exactly when r = 0.
C15_AdmissionMatchesRemaining ==
    (ValidOptions /\ monotone) =>
        /\ \A c \in 1 .. opts.Burst :
               ~Probe(c).Limited <=> c <= Probe(0).Remaining
        /\ Probe(0).Limited <=> Probe(0).Remaining = 0

\* C15, where the emission interval is at least 1.
C15_AdmissionMatchesRemainingPositiveInterval ==
    EmissionInterval >= 1 => C15_AdmissionMatchesRemaining

\* C16: Generate seeds the bucket with count tokens consumed: for all valid
\* options and every count in 0 .. Burst, Compute(now, bucket, 0, opts) on
\* the bucket Generate(now, count, opts) returned reports
\* Remaining = Burst - count.
C16_GenerateSeedsConsumed ==
    (afterGen /\ Computed /\ lastCost = 0) =>
        result.Remaining = opts.Burst - genCount

\* C16, amended: Generate seeds the bucket with count tokens available, that
\* is Burst - count tokens below full: the TAT it returns is
\* now + emissionInterval * (Burst - count), and Compute(now, bucket, 0, opts)
\* on that bucket reports Remaining = count where the emission interval is
\* at least 1, and the conversion of NaN to int64 where it is zero.
C16_GenerateSeedsAvailable ==
    /\ (lastOp = "generate" /\ err = "nil") =>
            bucket = lastNow + EmissionInterval * (opts.Burst - lastCost)
    /\ (afterGen /\ Computed /\ lastCost = 0) =>
            result.Remaining = IF EmissionInterval >= 1 THEN genCount
                               ELSE ConvertNonFinite(0)

\* A bucket generated with a count that is neither 0 nor half the burst was
\* queried at the same now and reported the count as Remaining.
C16_Witness ==
    /\ afterGen /\ Computed /\ lastCost = 0
    /\ genCount >= 1 /\ 2 * genCount # opts.Burst
    /\ result.Remaining = genCount

\* C17: when a Compute in a state reached under a clock that never goes
\* back is limited with RetryIn = r, the same Compute (same bucket, cost and
\* options) at now + d is limited for every d with 0 <= d < r.
C17_RetryInEarliest ==
    (Computed /\ monotone /\ result.Limited) =>
        \A d \in 0 .. result.RetryIn - 1 : Again(lastNow + d).Limited

\* C19: for all options that pass the check of the arguments the emission
\* interval roundDiv(Period, Rate) is at least 1, so that ComputeRaw's
\* division by it is defined and an allowed positive cost moves the TAT.
C19_EmissionIntervalPositive ==
    ValidOptions => EmissionInterval >= 1

\* C18: under valid options and a clock that never goes back, the total
\* cost S of the Computes allowed at times t0 .. t satisfies
\* emissionInterval * S <= emissionInterval * Burst + (t - t0).  (t0 = 0,
\* the bucket at t0 is the zero Bucket or one Generate returned, and t is
\* the now of the last call.)
C18_RateBound ==
    (ValidOptions /\ monotone /\ Called) =>
        EmissionInterval * total <= EmissionInterval * opts.Burst + lastNow

\* C20: a Compute on a bucket that a call under other valid Options
\* returned, made under a clock that never goes back, reports
\* 0 <= Remaining <= Burst of the Options of the Compute.
C20_ResultRangeAcrossOptions ==
    (Computed /\ changed) =>
        /\ 0 <= result.Remaining
        /\ result.Remaining <= madeUnder.Burst

====
